---- MODULE Spec2Model ----

(***************************************************************************)
(* Model of tggifts.common: the generic Firestore access layer              *)
(* (FirebaseService) over pydantic record types (FirebaseObject), the       *)
(* currency normaliser of the wallet records and Gift.update_payload.       *)
(*                                                                          *)
(* Every value stored in a document or held by a record is modelled as a    *)
(* string; None is the string "None".  A document is a function from the    *)
(* names of the fields it holds to their values; a collection is a function *)
(* from the ids of the documents that exist to the documents.               *)
(***************************************************************************)
EXTENDS Integers, Sequences, FiniteSets, TLC

VARIABLES db, nextId, work, last, cur, gift

vars == <<db, nextId, work, last, cur, gift>>

(***************************************************************************)
(* Bounds of the model.                                                     *)
(***************************************************************************)
\* work of one run: each call counts for the records (or ids) it is given, and
\* for one when it is given none or is no batch call
MaxWork == 3
\* filters in one query
MaxFilters == 2
\* characters of a price string
MaxPriceLen == 5

NoneVal == "None"

Restrict(f, S) == [x \in S |-> f[x]]

Range(s) == {s[i] : i \in 1..Len(s)}

SeqsUpTo(S, n) == UNION {[1..k -> S] : k \in 0..n}

(***************************************************************************)
(* Identifiers.  Callers supply CallerIds; the store generates the ids of   *)
(* AutoIdPool, each once, in this order (document() / add()).  AllIds is    *)
(* the order in which the store streams documents (by document id).         *)
(***************************************************************************)
CallerIds == {"a"}

AutoIdPool == <<"g1", "g2", "g3", "g4", "g5", "g6", "g7", "g8", "g9">>

AllIds == <<"a">> \o AutoIdPool

AutoId(n) == AutoIdPool[n]

\* the ids a caller can name: its own and those the store has handed out
KnownIds == CallerIds \cup {AutoIdPool[i] : i \in 1..(nextId - 1)}

(***************************************************************************)
(* Record types.                                                            *)
(***************************************************************************)
Classes == {"Wallet", "Inventory"}

collection_name(cls) ==
    IF cls = "Wallet" THEN "wallets" ELSE "inventory"

Collections == {collection_name(c) : c \in Classes}

\* the declared fields of a class, FirebaseObject.id included
ModelFields(cls) ==
    IF cls = "Wallet"
    THEN {"id", "user_id", "balance", "currency", "last_updated"}
    ELSE {"id", "user_id", "gift_id", "volume_fixation", "created_at"}

\* the fields that have a default, with the default
Defaults(cls) ==
    IF cls = "Wallet"
    THEN [f \in {"id", "balance", "last_updated"} |->
            IF f = "balance" THEN "0" ELSE NoneVal]
    ELSE [f \in {"id"} |-> NoneVal]

RequiredFields(cls) == ModelFields(cls) \ DOMAIN Defaults(cls)

(***************************************************************************)
(* pydantic: a record is its class, the value of every declared field and   *)
(* the set of fields that were explicitly set (model_fields_set).           *)
(***************************************************************************)
ValidationError == [ok |-> FALSE]

\* model_class(**data): required fields must be given, extra keys are ignored
ModelInit(cls, data) ==
    IF ~(RequiredFields(cls) \subseteq DOMAIN data)
    THEN ValidationError
    ELSE [ok |-> TRUE,
          obj |-> [cls |-> cls,
                   vals |-> [f \in ModelFields(cls) |->
                               IF f \in DOMAIN data THEN data[f]
                               ELSE Defaults(cls)[f]],
                   set |-> DOMAIN data \cap ModelFields(cls)]]

\* obj.f = v: the field counts as set from then on
SetAttr(obj, f, v) ==
    [obj EXCEPT !.vals = [@ EXCEPT ![f] = v], !.set = @ \cup {f}]

\* obj.model_dump(): every field, defaults as placeholders
ModelDumpAll(obj) == obj.vals

\* obj.model_dump(exclude_unset=True)
model_dump(obj) == Restrict(obj.vals, obj.set)

ObjId(obj) == obj.vals["id"]

\* `not obj.id`: None and the empty string are both falsy
HasNoId(obj) == ObjId(obj) \in {NoneVal, ""}

(***************************************************************************)
(* The document store (google.cloud.firestore), as the access layer uses it.*)
(***************************************************************************)
\* document(id).set(data): the document becomes exactly data
DocSet(d, coll, id, data) ==
    [d EXCEPT ![coll] =
        [i \in DOMAIN @ \cup {id} |-> IF i = id THEN data ELSE @[i]]]

\* document(id).set(data, merge=True): the fields of data are written, the other
\* fields of an existing document stay; a missing document is created
DocSetMerge(d, coll, id, data) ==
    LET old == IF id \in DOMAIN d[coll] THEN d[coll][id] ELSE [f \in {} |-> ""]
        new == [f \in DOMAIN old \cup DOMAIN data |->
                  IF f \in DOMAIN data THEN data[f] ELSE old[f]]
    IN  DocSet(d, coll, id, new)

\* document(id).delete(): no error when the document is missing
DocDelete(d, coll, id) ==
    [d EXCEPT ![coll] = Restrict(@, DOMAIN @ \ {id})]

\* one queued write of a WriteBatch
ApplyWrite(d, w) ==
    IF w.kind = "set" THEN DocSet(d, w.coll, w.id, w.data)
    ELSE IF w.kind = "merge" THEN DocSetMerge(d, w.coll, w.id, w.data)
    ELSE DocDelete(d, w.coll, w.id)

RECURSIVE ApplyWrites(_, _)
ApplyWrites(d, ws) ==
    IF ws = <<>> THEN d ELSE ApplyWrites(ApplyWrite(d, Head(ws)), Tail(ws))

\* batch.commit(): every queued write, in order, or (on failure) none
BatchCommit(d, ws) == ApplyWrites(d, ws)

\* FieldFilter(field, "==", value): the document holds the field with that value
Matches(doc, filters) ==
    \A k \in 1..Len(filters) :
        /\ filters[k].field \in DOMAIN doc
        /\ doc[filters[k].field] = filters[k].value

\* collection.where(...).stream(): ids of the matching documents, by document id
Stream(d, coll, filters) ==
    SelectSeq(AllIds, LAMBDA i : i \in DOMAIN d[coll] /\ Matches(d[coll][i], filters))

\* data = doc.to_dict(); data["id"] = doc.id
WithId(doc, id) ==
    [f \in DOMAIN doc \cup {"id"} |-> IF f = "id" THEN id ELSE doc[f]]

(***************************************************************************)
(* Outcomes of a call: what it returns or raises, the store afterwards and  *)
(* the records it was given as they are afterwards.  A message is the       *)
(* sequence of the pieces its f-string is put together from.                *)
(***************************************************************************)
NoExc == [kind |-> "none", msg |-> <<>>]

FirebaseServiceException(msg) == [kind |-> "FirebaseServiceException", msg |-> msg]

\* str(e) of a failure of the store round trip
Cause == "unavailable"

\* str(e) of a pydantic ValidationError
ValidationCause == "validation error"

NumStr(n) == <<"0", "1", "2", "3", "4", "5", "6", "7", "8", "9", "10">>[n + 1]

RetNone == [kind |-> "None"]
RetObj(o) == [kind |-> "obj", val |-> o]
RetList(os) == [kind |-> "list", val |-> os]
RetData(m) == [kind |-> "data", val |-> m]
NoRet == [kind |-> "raised"]

Returned(d, nid, ret, objs) ==
    [db |-> d, nextId |-> nid, ret |-> ret, exc |-> NoExc, objs |-> objs]

Raised(d, nid, exc, objs) ==
    [db |-> d, nextId |-> nid, ret |-> NoRet, exc |-> exc, objs |-> objs]

(***************************************************************************)
(* FirebaseService.  Each method is an operator of the store d, the next    *)
(* auto id nid, its arguments and whether the store round trip fails.       *)
(***************************************************************************)
add(d, nid, obj, fail) ==
    LET coll == collection_name(obj.cls)
        id   == AutoId(nid)
        o2   == SetAttr(obj, "id", id)
    IN  IF fail
        THEN Raised(d, nid,
                 FirebaseServiceException(<<"Failed to add document to ", coll, ": ", Cause>>),
                 <<obj>>)
        ELSE Returned(DocSet(d, coll, id, model_dump(obj)), nid + 1, RetObj(o2), <<o2>>)

add_with_doc_id(d, nid, doc_id, obj, fail) ==
    LET coll == collection_name(obj.cls)
    IN  IF fail
        THEN Raised(d, nid,
                 FirebaseServiceException(<<"Failed to add document to ", coll, ": ", Cause>>),
                 <<obj>>)
        ELSE Returned(DocSet(d, coll, doc_id, model_dump(obj)), nid, RetObj(obj), <<obj>>)

delete(d, nid, model_class, document_id, fail) ==
    IF fail
    THEN Raised(d, nid,
             FirebaseServiceException(<<"Failed to delete document: ", Cause>>), <<>>)
    ELSE Returned(DocDelete(d, collection_name(model_class), document_id), nid,
             RetNone, <<>>)

fetch_all(d, nid, model_class, filters, fail) ==
    LET coll == collection_name(model_class)
        ids  == Stream(d, coll, filters)
        made == [k \in 1..Len(ids) |-> ModelInit(model_class, WithId(d[coll][ids[k]], ids[k]))]
    IN  IF fail
        THEN Raised(d, nid,
                 FirebaseServiceException(<<"Error fetching documents from ", coll, ": ", Cause>>),
                 <<>>)
        ELSE IF \E k \in 1..Len(ids) : ~made[k].ok
        THEN Raised(d, nid,
                 FirebaseServiceException(
                     <<"Error fetching documents from ", coll, ": ", ValidationCause>>),
                 <<>>)
        ELSE Returned(d, nid, RetList([k \in 1..Len(ids) |-> made[k].obj]), <<>>)

\* what fetch_by_id answers for a document that does not exist
FetchByIdMissingRaises(d, nid, coll) ==
    Raised(d, nid,
        FirebaseServiceException(<<"Error fetching document from ", coll, ": ", "not found">>),
        <<>>)

FetchByIdMissing(d, nid, coll) == Returned(d, nid, RetNone, <<>>)

fetch_by_id(d, nid, model_class, doc_id, fail) ==
    LET coll == collection_name(model_class)
        made == ModelInit(model_class, WithId(d[coll][doc_id], doc_id))
    IN  IF fail
        THEN Raised(d, nid,
                 FirebaseServiceException(<<"Error fetching document from ", coll, ": ", Cause>>),
                 <<>>)
        ELSE IF doc_id \notin DOMAIN d[coll]
        THEN FetchByIdMissing(d, nid, coll)
        ELSE IF ~made.ok
        THEN Raised(d, nid,
                 FirebaseServiceException(
                     <<"Error fetching document from ", coll, ": ", ValidationCause>>),
                 <<>>)
        ELSE Returned(d, nid, RetObj(made.obj), <<>>)

\* fetch_one without its count check: the first of several matches
FetchOneOfFirst(d, nid, model_class, objects) ==
    IF Len(objects) = 0 THEN Returned(d, nid, RetNone, <<>>)
    ELSE Returned(d, nid, RetObj(objects[1]), <<>>)

\* fetch_one after its fetch_all returned objects
FetchOneOf(d, nid, model_class, objects) ==
    IF Len(objects) = 0 THEN Returned(d, nid, RetNone, <<>>)
    ELSE IF Len(objects) # 1
    THEN Raised(d, nid,
             FirebaseServiceException(
                 <<"Expected one document, but found ", NumStr(Len(objects)), " in ",
                   collection_name(model_class), ".">>),
             <<>>)
    ELSE Returned(d, nid, RetObj(objects[1]), <<>>)

fetch_one(d, nid, model_class, filters, fail) ==
    LET r == fetch_all(d, nid, model_class, filters, fail)
    IN  IF r.exc # NoExc THEN r
        ELSE FetchOneOf(d, nid, model_class, r.ret.val)

\* update with set(data) in place of set(data, merge=True)
UpdateOverwriting(d, nid, id, obj, fail) ==
    LET data == model_dump(obj)
    IN  IF fail
        THEN Raised(d, nid,
                 FirebaseServiceException(<<"Error updating document with ID ", id, ": ", Cause>>),
                 <<obj>>)
        ELSE Returned(DocSet(d, collection_name(obj.cls), id, data), nid,
                 RetData(WithId(data, id)), <<obj>>)

update(d, nid, id, obj, fail) ==
    LET data == model_dump(obj)
    IN  IF fail
        THEN Raised(d, nid,
                 FirebaseServiceException(<<"Error updating document with ID ", id, ": ", Cause>>),
                 <<obj>>)
        ELSE Returned(DocSetMerge(d, collection_name(obj.cls), id, data), nid,
                 RetData(WithId(data, id)), <<obj>>)

\* the writes batch_add queues, and the records with the generated ids assigned
BatchAddIds(nid, objs) == [k \in 1..Len(objs) |-> AutoId(nid + k - 1)]

BatchAddWrites(nid, objs) ==
    [k \in 1..Len(objs) |->
        [kind |-> "set", coll |-> collection_name(objs[k].cls),
         id |-> BatchAddIds(nid, objs)[k], data |-> model_dump(objs[k])]]

BatchAddAssigned(nid, objs) ==
    [k \in 1..Len(objs) |-> SetAttr(objs[k], "id", BatchAddIds(nid, objs)[k])]

\* batch_add writing each document as it goes (collection.add per record) in place of
\* queueing: a failure at the last write leaves the earlier documents stored
BatchAddUnbatched(d, nid, objs, fail) ==
    LET n  == Len(objs)
        ws == BatchAddWrites(nid, objs)
        os == BatchAddAssigned(nid, objs)
    IN  IF fail
        THEN Raised(ApplyWrites(d, SubSeq(ws, 1, n - 1)), nid + n,
                 FirebaseServiceException(<<"Batch add failed: ", Cause>>), os)
        ELSE Returned(ApplyWrites(d, ws), nid + n, RetList(os), os)

batch_add(d, nid, objs, fail) ==
    LET n  == Len(objs)
        ws == BatchAddWrites(nid, objs)
        os == BatchAddAssigned(nid, objs)
    IN  IF fail
        THEN Raised(d, nid + n,
                 FirebaseServiceException(<<"Batch add failed: ", Cause>>), os)
        ELSE Returned(BatchCommit(d, ws), nid + n, RetList(os), os)

BatchUpdateWrites(objs) ==
    [k \in 1..Len(objs) |->
        [kind |-> "merge", coll |-> collection_name(objs[k].cls),
         id |-> ObjId(objs[k]), data |-> model_dump(objs[k])]]

MissingIdMessage == "Each object must have an ID for batch update."

\* batch_update writing each document as it goes in place of queueing: the records
\* before the first one without an id are already written when it raises
BatchUpdateUnbatched(d, nid, objs, fail) ==
    LET ws    == BatchUpdateWrites(objs)
        bad   == {k \in 1..Len(objs) : HasNoId(objs[k])}
        first == CHOOSE k \in bad : \A j \in bad : k <= j
    IN  IF bad # {}
        THEN Raised(ApplyWrites(d, SubSeq(ws, 1, first - 1)), nid,
                 FirebaseServiceException(<<"Batch update failed: ", MissingIdMessage>>), objs)
        ELSE IF fail
        THEN Raised(d, nid,
                 FirebaseServiceException(<<"Batch update failed: ", Cause>>), objs)
        ELSE Returned(ApplyWrites(d, ws), nid, RetList(objs), objs)

batch_update(d, nid, objs, fail) ==
    IF \E k \in 1..Len(objs) : HasNoId(objs[k])
    THEN Raised(d, nid,
             FirebaseServiceException(<<"Batch update failed: ", MissingIdMessage>>), objs)
    ELSE IF fail
    THEN Raised(d, nid,
             FirebaseServiceException(<<"Batch update failed: ", Cause>>), objs)
    ELSE Returned(BatchCommit(d, BatchUpdateWrites(objs)), nid, RetList(objs), objs)

batch_delete(d, nid, model_class, doc_ids, fail) ==
    LET ws == [k \in 1..Len(doc_ids) |->
                 [kind |-> "delete", coll |-> collection_name(model_class),
                  id |-> doc_ids[k]]]
    IN  IF fail
        THEN Raised(d, nid,
                 FirebaseServiceException(<<"Batch delete failed: ", Cause>>), <<>>)
        ELSE Returned(BatchCommit(d, ws), nid, RetNone, <<>>)

(***************************************************************************)
(* The callers.  A caller constructs records of the record types, with or   *)
(* without the optional fields and with or without an id it knows, and       *)
(* calls the access layer.  last records the latest call: its arguments,    *)
(* the store before it (pre), its outcome and its records afterwards; the   *)
(* caller takes the outcome (Return) before the next call.                  *)
(***************************************************************************)
Extend(f, k, v) == [x \in DOMAIN f \cup {k} |-> IF x = k THEN v ELSE f[x]]

WithOptionalId(S) == S \cup {Extend(m, "id", i) : m \in S, i \in KnownIds}

CallerData(cls) ==
    IF cls = "Wallet"
    THEN WithOptionalId({[user_id |-> "u1", currency |-> "COIN"],
                         [user_id |-> "u2", currency |-> "COIN", balance |-> "5"]})
    ELSE WithOptionalId({[user_id |-> "u1", gift_id |-> "gft",
                          volume_fixation |-> "7", created_at |-> "t0"]})

InputObjs == UNION {{ModelInit(c, m).obj : m \in CallerData(c)} : c \in Classes}

FieldFilters ==
    {[field |-> "user_id", value |-> "u1"], [field |-> "balance", value |-> "5"]}

NoCall == [cls |-> "", id |-> "", objs |-> <<>>, filters |-> <<>>, ids |-> <<>>,
           fail |-> FALSE]

Idle == [op |-> "idle", call |-> NoCall, pre |-> [c \in Collections |-> <<>>],
         ret |-> RetNone, exc |-> NoExc, objs |-> <<>>]

Cost(n) == IF n = 0 THEN 1 ELSE n

Apply(op, call, r, cost) ==
    /\ db' = r.db
    /\ nextId' = r.nextId
    /\ work' = work + cost
    /\ last' = [op |-> op, call |-> call, pre |-> db, ret |-> r.ret, exc |-> r.exc,
                objs |-> r.objs]
    /\ UNCHANGED <<cur, gift>>

CanCall == last = Idle /\ work < MaxWork

Add ==
    /\ CanCall
    /\ \E obj \in InputObjs, fail \in BOOLEAN :
          Apply("add", [NoCall EXCEPT !.objs = <<obj>>, !.cls = obj.cls, !.fail = fail],
                add(db, nextId, obj, fail), 1)

AddWithDocId ==
    /\ CanCall
    /\ \E obj \in InputObjs, id \in KnownIds, fail \in BOOLEAN :
          Apply("add_with_doc_id",
                [NoCall EXCEPT !.objs = <<obj>>, !.cls = obj.cls, !.id = id, !.fail = fail],
                add_with_doc_id(db, nextId, id, obj, fail), 1)

Delete ==
    /\ CanCall
    /\ \E cls \in Classes, id \in KnownIds, fail \in BOOLEAN :
          Apply("delete", [NoCall EXCEPT !.cls = cls, !.id = id, !.fail = fail],
                delete(db, nextId, cls, id, fail), 1)

FetchAll ==
    /\ CanCall
    /\ \E cls \in Classes, fs \in SeqsUpTo(FieldFilters, MaxFilters), fail \in BOOLEAN :
          Apply("fetch_all", [NoCall EXCEPT !.cls = cls, !.filters = fs, !.fail = fail],
                fetch_all(db, nextId, cls, fs, fail), 1)

FetchById ==
    /\ CanCall
    /\ \E cls \in Classes, id \in KnownIds, fail \in BOOLEAN :
          Apply("fetch_by_id", [NoCall EXCEPT !.cls = cls, !.id = id, !.fail = fail],
                fetch_by_id(db, nextId, cls, id, fail), 1)

FetchOne ==
    /\ CanCall
    /\ \E cls \in Classes, fs \in SeqsUpTo(FieldFilters, MaxFilters), fail \in BOOLEAN :
          Apply("fetch_one", [NoCall EXCEPT !.cls = cls, !.filters = fs, !.fail = fail],
                fetch_one(db, nextId, cls, fs, fail), 1)

Update ==
    /\ CanCall
    /\ \E obj \in InputObjs, id \in KnownIds, fail \in BOOLEAN :
          Apply("update",
                [NoCall EXCEPT !.objs = <<obj>>, !.cls = obj.cls, !.id = id, !.fail = fail],
                update(db, nextId, id, obj, fail), 1)

BatchAdd ==
    /\ CanCall
    /\ \E objs \in SeqsUpTo(InputObjs, MaxWork - work), fail \in BOOLEAN :
          Apply("batch_add", [NoCall EXCEPT !.objs = objs, !.fail = fail],
                batch_add(db, nextId, objs, fail), Cost(Len(objs)))

BatchUpdate ==
    /\ CanCall
    /\ \E objs \in SeqsUpTo(InputObjs, MaxWork - work), fail \in BOOLEAN :
          Apply("batch_update", [NoCall EXCEPT !.objs = objs, !.fail = fail],
                batch_update(db, nextId, objs, fail), Cost(Len(objs)))

BatchDelete ==
    /\ CanCall
    /\ \E cls \in Classes, ids \in SeqsUpTo(KnownIds, MaxWork - work), fail \in BOOLEAN :
          Apply("batch_delete", [NoCall EXCEPT !.cls = cls, !.ids = ids, !.fail = fail],
                batch_delete(db, nextId, cls, ids, fail), Cost(Len(ids)))

Return ==
    /\ last # Idle
    /\ last' = Idle
    /\ UNCHANGED <<db, nextId, work, cur, gift>>

CurIdle == [stage |-> "idle"]

GiftIdle == [stage |-> "idle"]

Init ==
    /\ db = [c \in Collections |-> <<>>]
    /\ nextId = 1
    /\ work = 0
    /\ last = Idle
    /\ cur = CurIdle
    /\ gift = GiftIdle

Next ==
    \/ Add
    \/ AddWithDocId
    \/ Delete
    \/ FetchAll
    \/ FetchById
    \/ FetchOne
    \/ Update
    \/ BatchAdd
    \/ BatchUpdate
    \/ BatchDelete
    \/ Return

Spec == Init /\ [][Next]_vars

(***************************************************************************)
(* Properties of the access layer, over Spec.                               *)
(***************************************************************************)
IsFSE(e) == e.kind = "FirebaseServiceException"

Called(op) == last.op = op

Arg == last.call.objs[1]

\* the fields a record had explicitly set, with their values
SetFieldsOf(o) == [f \in o.set |-> o.vals[f]]

\* every document but the one at <<coll, id>> is as it was before the call
OthersUnchanged(coll, id) ==
    \A c \in Collections :
        /\ DOMAIN db[c] \ (IF c = coll THEN {id} ELSE {})
             = DOMAIN last.pre[c] \ (IF c = coll THEN {id} ELSE {})
        /\ \A i \in DOMAIN db[c] : (c # coll \/ i # id) => db[c][i] = last.pre[c][i]

\* C1: fetch_one returns None when fetch_all with the same filters yields no document,
\* that record when it yields exactly one, and raises FirebaseServiceException with the
\* actual count in its message when it yields two or more; it never returns one of
\* several matches.
C1_FetchOneZeroOneMany ==
    Called("fetch_one") =>
        LET c   == last.call
            all == fetch_all(last.pre, nextId, c.cls, c.filters, c.fail)
            n   == Len(all.ret.val)
        IN  all.exc = NoExc =>
              /\ n = Cardinality({i \in DOMAIN last.pre[collection_name(c.cls)] :
                                    Matches(last.pre[collection_name(c.cls)][i], c.filters)})
              /\ n = 0 => last.exc = NoExc /\ last.ret = RetNone
              /\ n = 1 => last.exc = NoExc /\ last.ret = RetObj(all.ret.val[1])
              /\ n >= 2 => /\ IsFSE(last.exc)
                           /\ last.ret = NoRet
                           /\ NumStr(n) \in Range(last.exc.msg)
              /\ db = last.pre

\* C1 witness: a filtered fetch_one that met two matching documents and raised
C1_Witness ==
    /\ Called("fetch_one")
    /\ last.call.filters # <<>>
    /\ Cardinality({i \in DOMAIN last.pre["wallets"] :
                      Matches(last.pre["wallets"][i], last.call.filters)}) = 2
    /\ last.call.cls = "Wallet"
    /\ IsFSE(last.exc)
    /\ "2" \in Range(last.exc.msg)

\* C2: update(id, record) on a stored document writes exactly the explicitly-set fields
\* and leaves every other field of the document unchanged (not cleared), as a
\* fetch_by_id afterwards observes; it returns the set fields plus the key id = id.
C2_UpdateMergesSetFields ==
    (Called("update") /\ last.exc = NoExc) =>
        LET id   == last.call.id
            coll == collection_name(Arg.cls)
            old  == last.pre[coll][id]
            new  == db[coll][id]
            was  == fetch_by_id(last.pre, nextId, Arg.cls, id, FALSE)
            now  == fetch_by_id(db, nextId, Arg.cls, id, FALSE)
        IN  /\ id \in DOMAIN db[coll]
            /\ OthersUnchanged(coll, id)
            /\ \A f \in Arg.set : f \in DOMAIN new /\ new[f] = Arg.vals[f]
            /\ last.ret.kind = "data"
            /\ DOMAIN last.ret.val = Arg.set \cup {"id"}
            /\ last.ret.val["id"] = id
            /\ \A f \in Arg.set \ {"id"} : last.ret.val[f] = Arg.vals[f]
            /\ id \in DOMAIN last.pre[coll] =>
                 /\ DOMAIN new = DOMAIN old \cup Arg.set
                 /\ \A f \in DOMAIN old \ Arg.set : new[f] = old[f]
                 /\ was.ret.kind = "obj" /\ now.ret.kind = "obj"
                 /\ \A f \in ModelFields(Arg.cls) \ Arg.set :
                        now.ret.val.vals[f] = was.ret.val.vals[f]
                 /\ \A f \in Arg.set \ {"id"} : now.ret.val.vals[f] = Arg.vals[f]

\* C2 witness: an update that changed one field of a stored document holding another
\* field the record had not set
C2_Witness ==
    /\ Called("update")
    /\ last.exc = NoExc
    /\ last.call.id \in DOMAIN last.pre["wallets"]
    /\ Arg.cls = "Wallet"
    /\ "balance" \in DOMAIN last.pre["wallets"][last.call.id] \ Arg.set
    /\ last.pre["wallets"][last.call.id]["user_id"] # Arg.vals["user_id"]

\* C3: batch_update on a list holding a record without an identifier, at any position,
\* raises FirebaseServiceException and leaves the store unchanged: no document is
\* modified, those of the records before the id-less one included.
C3_BatchUpdateMissingIdWritesNothing ==
    (Called("batch_update")
        /\ \E k \in 1..Len(last.call.objs) : last.call.objs[k].vals["id"] = NoneVal) =>
        /\ IsFSE(last.exc)
        /\ db = last.pre

\* C3 witness: a batch_update whose first record names a stored document it would have
\* changed and whose second record has no identifier
C3_Witness ==
    /\ Called("batch_update")
    /\ Len(last.call.objs) >= 2
    /\ last.call.objs[1].vals["id"] \in DOMAIN last.pre[collection_name(last.call.objs[1].cls)]
    /\ last.call.objs[2].vals["id"] = NoneVal
    /\ DocSetMerge(last.pre, collection_name(last.call.objs[1].cls),
                   last.call.objs[1].vals["id"], SetFieldsOf(last.call.objs[1])) # last.pre
    /\ IsFSE(last.exc)

\* the records a successful fetch_all of a class returns from the current store
FetchedNow(cls) == fetch_all(db, nextId, cls, <<>>, FALSE)

\* C4: batch_add is all-or-nothing.  On success the n records are stored under n
\* pairwise distinct, non-empty, newly generated identifiers, the returned records
\* carry them, and a fetch_all of the collection afterwards contains all n; on failure
\* none of the n documents is stored.
C4_BatchAddAllOrNothing ==
    Called("batch_add") =>
        LET ins == last.call.objs
            n   == Len(ins)
            out == last.ret.val
            idk(k)   == out[k].vals["id"]
            collk(k) == collection_name(ins[k].cls)
        IN  IF last.exc = NoExc
            THEN /\ last.ret.kind = "list"
                 /\ Len(out) = n
                 /\ \A k \in 1..n :
                      /\ idk(k) \notin {NoneVal, ""}
                      /\ \A j \in 1..n : j # k => idk(j) # idk(k)
                      /\ idk(k) \notin DOMAIN last.pre[collk(k)]
                      /\ idk(k) \in DOMAIN db[collk(k)]
                      /\ db[collk(k)][idk(k)] = SetFieldsOf(ins[k])
                      /\ out[k].cls = ins[k].cls
                      /\ FetchedNow(ins[k].cls).exc = NoExc
                      /\ \E m \in 1..Len(FetchedNow(ins[k].cls).ret.val) :
                           LET got == FetchedNow(ins[k].cls).ret.val[m]
                           IN  /\ got.vals["id"] = idk(k)
                               /\ \A f \in ins[k].set \ {"id"} : got.vals[f] = ins[k].vals[f]
                 /\ \A c \in Collections :
                      /\ DOMAIN db[c] = DOMAIN last.pre[c]
                                          \cup {idk(k) : k \in {j \in 1..n : collk(j) = c}}
                      /\ \A i \in DOMAIN last.pre[c] : db[c][i] = last.pre[c][i]
            ELSE /\ IsFSE(last.exc)
                 /\ db = last.pre

\* C4 witness: a batch_add of three records succeeded
C4_Witness ==
    /\ Called("batch_add")
    /\ last.exc = NoExc
    /\ Len(last.call.objs) = 3
    /\ Cardinality({last.ret.val[k].vals["id"] : k \in 1..3}) = 3

\* C5: when the store answers, fetch_by_id returns None and does not raise for an
\* identifier with no document, and for a stored document returns a record of the type
\* built from the document's fields with its identifier equal to the requested id;
\* the store is left as it was.
FetchByIdAnswer(r, d, cls, id) ==
    LET coll == collection_name(cls)
    IN  IF id \notin DOMAIN d[coll]
        THEN r.exc = NoExc /\ r.ret = RetNone
        ELSE /\ r.exc = NoExc
             /\ r.ret.kind = "obj"
             /\ r.ret.val.cls = cls
             /\ r.ret.val.vals["id"] = id
             /\ \A f \in (DOMAIN d[coll][id] \cap ModelFields(cls)) \ {"id"} :
                    r.ret.val.vals[f] = d[coll][id][f]
             /\ \A f \in ModelFields(cls) \ (DOMAIN d[coll][id] \cup {"id"}) :
                    r.ret.val.vals[f] = Defaults(cls)[f]
             /\ r.ret.val.set = (DOMAIN d[coll][id] \cap ModelFields(cls)) \cup {"id"}

C5_FetchByIdAbsentIsNone ==
    (Called("fetch_by_id") /\ ~last.call.fail) =>
        /\ FetchByIdAnswer(last, last.pre, last.call.cls, last.call.id)
        /\ db = last.pre

\* C5 witness: fetch_by_id returned None for a generated identifier whose document
\* had been created and deleted again
C5_Witness ==
    /\ Called("fetch_by_id")
    /\ last.call.id \in KnownIds \ CallerIds
    /\ last.call.id \notin DOMAIN db[collection_name(last.call.cls)]
    /\ last.call.cls = "Wallet"
    /\ ~last.call.fail
    /\ last.ret = RetNone

\* C6: a successful create of a record without an identifier adds exactly one new
\* document to the type's collection holding exactly the explicitly-set fields (no
\* placeholder for an unset field), assigns the generated identifier to the record and
\* returns that record; fetch_by_id of that identifier then returns a record with the
\* same identifier and the same values for those fields.
C6_CreateStoresSetFields ==
    (Called("add") /\ last.exc = NoExc /\ Arg.vals["id"] = NoneVal) =>
        LET coll == collection_name(Arg.cls)
            new  == last.ret.val.vals["id"]
            back == fetch_by_id(db, nextId, Arg.cls, new, FALSE)
        IN  /\ last.ret.kind = "obj"
            /\ new \notin {NoneVal, ""}
            /\ new \notin DOMAIN last.pre[coll]
            /\ DOMAIN db[coll] = DOMAIN last.pre[coll] \cup {new}
            /\ OthersUnchanged(coll, new)
            /\ db[coll][new] = SetFieldsOf(Arg)
            /\ last.ret.val.cls = Arg.cls
            /\ \A f \in ModelFields(Arg.cls) \ {"id"} : last.ret.val.vals[f] = Arg.vals[f]
            /\ last.objs = <<last.ret.val>>
            /\ back.exc = NoExc
            /\ back.ret.kind = "obj"
            /\ back.ret.val.vals["id"] = new
            /\ \A f \in Arg.set \ {"id"} : back.ret.val.vals[f] = Arg.vals[f]

\* C6 witness: a Wallet with balance unset was created in a collection that already
\* held a document
C6_Witness ==
    /\ Called("add")
    /\ last.exc = NoExc
    /\ Arg.cls = "Wallet"
    /\ Arg.vals["id"] = NoneVal
    /\ "balance" \notin Arg.set
    /\ DOMAIN last.pre["wallets"] # {}
    /\ "balance" \notin DOMAIN db["wallets"][last.ret.val.vals["id"]]

\* C7 (as claimed): after a successful create_with_id(id, record) the document at id
\* is exactly the record's explicitly-set fields, nothing of an older document
\* surviving, and the returned record carries the identifier id.
C7_CreateWithIdReturnsId ==
    (Called("add_with_doc_id") /\ last.exc = NoExc) =>
        /\ db[collection_name(Arg.cls)][last.call.id] = SetFieldsOf(Arg)
        /\ OthersUnchanged(collection_name(Arg.cls), last.call.id)
        /\ last.ret.kind = "obj"
        /\ last.ret.val.vals["id"] = last.call.id

\* the collections a call addresses
CallCollections ==
    IF last.call.cls # "" THEN {collection_name(last.call.cls)}
    ELSE {collection_name(last.call.objs[k].cls) : k \in 1..Len(last.call.objs)}

\* C8 (as claimed): every failure of a store interaction surfaces as a
\* FirebaseServiceException whose message includes the collection name and the
\* underlying cause.
C8_FailureNamesCollectionAndCause ==
    (last.call.fail /\ last.exc # NoExc /\ CallCollections # {}) =>
        /\ IsFSE(last.exc)
        /\ Cause \in Range(last.exc.msg)
        /\ \E c \in CallCollections : c \in Range(last.exc.msg)

\* the records of the call that carried an identifier when it was made
CarriedId == {k \in 1..Len(last.call.objs) : ~HasNoId(last.call.objs[k])}

\* C11 (as claimed): a record that carries an identifier before an access-layer
\* operation carries the same identifier after it, whatever the operation and whether
\* it succeeded.
C11_IdentifierNeverReassigned ==
    \A k \in CarriedId : ObjId(last.objs[k]) = ObjId(last.call.objs[k])

\* what the code does keep: add_with_doc_id, update and batch_update leave every
\* record's identifier as it was, and so does an add that failed
IdentifierKeptOutsideCreate ==
    (last.op \notin {"add", "batch_add"} \/ (Called("add") /\ last.exc # NoExc)) =>
        \A k \in 1..Len(last.call.objs) : ObjId(last.objs[k]) = ObjId(last.call.objs[k])

\* and what it does not: add, when it succeeds, and batch_add, whether its commit
\* succeeds or not, give every record a fresh identifier that no record of the call
\* carried before
CreateReassignsIdentifier ==
    ((Called("add") /\ last.exc = NoExc) \/ Called("batch_add")) =>
        \A k \in 1..Len(last.call.objs) :
            /\ ObjId(last.objs[k]) \in Range(AutoIdPool)
            /\ \A j \in 1..Len(last.call.objs) :
                   ObjId(last.objs[k]) # ObjId(last.call.objs[j])

\* C12 (as claimed): when add or batch_add fails, the failure of the batch commit
\* after all writes were queued included, no document has been stored and every input
\* record is as it was before the call, a record without an identifier still without.
C12_FailureLeavesNoPartialResult ==
    (last.op \in {"add", "batch_add"} /\ last.exc # NoExc) =>
        /\ db = last.pre
        /\ last.objs = last.call.objs

\* what the code does keep: a failed add or batch_add stores no document, and a failed
\* add leaves its record as it was
FailedCreateStoresNothing ==
    (last.op \in {"add", "batch_add"} /\ last.exc # NoExc) =>
        /\ db = last.pre
        /\ Called("add") => last.objs = last.call.objs

\* and what it does not: after a failed batch_add every input record carries a
\* generated identifier under which the store holds no document of the call
FailedBatchAddLeavesIdentifiers ==
    (Called("batch_add") /\ last.exc # NoExc) =>
        \A k \in 1..Len(last.call.objs) :
            /\ ObjId(last.objs[k]) \in Range(AutoIdPool)
            /\ ObjId(last.objs[k]) # ObjId(last.call.objs[k])
            /\ ObjId(last.objs[k]) \notin DOMAIN db[collection_name(last.objs[k].cls)]

(***************************************************************************)
(* wallet.py: the currency field of Wallet, Transaction and TopUpRequest.   *)
(* A string is the sequence of its characters.                              *)
(***************************************************************************)
TON == <<"T", "O", "N">>

COIN == <<"C", "O", "I", "N">>

XTR == <<"X", "T", "R">>

\* the values of the members of the enum Currency
Currency == {TON, COIN, XTR}

\* f"{Currency.__name__}."
CurrencyPrefix == <<"C", "u", "r", "r", "e", "n", "c", "y", ".">>

startswith(v, prefix) ==
    Len(v) >= Len(prefix) /\ SubSeq(v, 1, Len(prefix)) = prefix

\* v.split(".", 1)[1]: what follows the first dot of a string that holds one
AfterFirstDot(v) ==
    LET dots == {i \in 1..Len(v) : v[i] = "."}
        d    == CHOOSE i \in dots : \A j \in dots : i <= j
    IN  SubSeq(v, d + 1, Len(v))

\* the field_validator('currency', mode='before') of Wallet and of Transaction
normalize_currency(v) ==
    IF v.isstr /\ startswith(v.chars, CurrencyPrefix)
    THEN [isstr |-> TRUE, chars |-> AfterFirstDot(v.chars)]
    ELSE v

CurrencyClasses == {"Wallet", "Transaction", "TopUpRequest"}

\* the classes that declare the validator
HasNormalizer(cls) == cls \in {"Wallet", "Transaction"}

\* pydantic's validation of a field of type Currency: the value of a member, or an error
ValidateCurrency(v) ==
    IF v.isstr /\ v.chars \in Currency
    THEN [ok |-> TRUE, value |-> v.chars]
    ELSE [ok |-> FALSE, value |-> <<>>]

\* the currency of cls(currency=v, ...), the other fields being valid
ConstructCurrency(cls, v) ==
    ValidateCurrency(IF HasNormalizer(cls) THEN normalize_currency(v) ELSE v)

Str(chars) == [isstr |-> TRUE, chars |-> chars]

RawPrefixes ==
    {<<>>, CurrencyPrefix, <<"c", "u", "r", "r", "e", "n", "c", "y", ".">>,
     <<"C", "u", "r", "r", "e", "n", "c", "y">>, CurrencyPrefix \o CurrencyPrefix,
     <<"X", ".">>}

RawTags == Currency \cup {<<"U", "S", "D">>, <<>>, <<"c", "o", "i", "n">>, COIN \o <<".">>}

\* what a caller or a stored document gives as currency: strings, and a non-string
RawCurrencies ==
    {Str(p \o t) : p \in RawPrefixes, t \in RawTags} \cup {[isstr |-> FALSE, chars |-> <<>>]}

InitCurrency ==
    /\ db = [c \in Collections |-> <<>>]
    /\ nextId = 1
    /\ work = 0
    /\ last = Idle
    /\ gift = GiftIdle
    /\ cur \in {[stage |-> "input", cls |-> c, raw |-> r, ok |-> FALSE, value |-> <<>>] :
                   c \in CurrencyClasses, r \in RawCurrencies}

Construct ==
    /\ cur.stage = "input"
    /\ cur' = [cur EXCEPT !.stage = "built",
                          !.ok = ConstructCurrency(cur.cls, cur.raw).ok,
                          !.value = ConstructCurrency(cur.cls, cur.raw).value]
    /\ UNCHANGED <<db, nextId, work, last, gift>>

NextCurrency == Construct

SpecCurrency == InitCurrency /\ [][NextCurrency]_vars

\* C9 (as claimed): for Wallet, Transaction and TopUpRequest and every tag c of TON,
\* COIN, XTR, constructing the record with currency "Currency.<c>" succeeds and yields
\* the currency that the bare "<c>" yields; a value outside the closed set is rejected
\* in both forms.
C9_LegacyPrefixAccepted ==
    cur.stage = "built" =>
        /\ \A c \in Currency :
              /\ cur.raw = Str(c) => cur.ok /\ cur.value = c
              /\ cur.raw = Str(CurrencyPrefix \o c) =>
                    /\ cur.ok
                    /\ cur.value = ConstructCurrency(cur.cls, Str(c)).value
        /\ \A t \in RawTags \ Currency :
              cur.raw \in {Str(t), Str(CurrencyPrefix \o t)} => ~cur.ok

\* the same for the two classes that declare the validator (holds)
LegacyPrefixAcceptedWhereDeclared ==
    HasNormalizer(cur.cls) => C9_LegacyPrefixAccepted

(***************************************************************************)
(* gift.py: Gift.update_payload.  A price is None or a string, a string the *)
(* sequence of its characters.                                              *)
(***************************************************************************)
Digits == <<"0", "1", "2", "3", "4", "5", "6", "7", "8", "9">>

IsDigit(ch) == \E i \in 1..10 : Digits[i] = ch

DigitVal(ch) == (CHOOSE i \in 1..10 : Digits[i] = ch) - 1

RECURSIVE Pow(_, _)
Pow(b, n) == IF n = 0 THEN 1 ELSE b * Pow(b, n - 1)

RECURSIVE DigitsValue(_)
DigitsValue(ds) ==
    IF ds = <<>> THEN 0
    ELSE 10 * DigitsValue(SubSeq(ds, 1, Len(ds) - 1)) + DigitVal(ds[Len(ds)])

\* n / d with the common factors of ten removed
RECURSIVE Reduced(_, _)
Reduced(n, d) ==
    IF d > 1 /\ n % 10 = 0 THEN Reduced(n \div 10, d \div 10) ELSE [num |-> n, den |-> d]

\* float(s) of a string of digits and dots: the number num / den it denotes, or the
\* ValueError of a string that is no number (no digit, two dots, another character)
ParseDecimal(s) ==
    LET dots   == {i \in 1..Len(s) : s[i] = "."}
        digits == SelectSeq(s, IsDigit)
        dot    == CHOOSE i \in dots : TRUE
        fracs  == IF dots = {} THEN 0 ELSE Len(s) - dot
    IN  IF \/ \E i \in 1..Len(s) : ~IsDigit(s[i]) /\ s[i] # "."
           \/ Cardinality(dots) > 1
           \/ digits = <<>>
        THEN [ok |-> FALSE, num |-> 0, den |-> 1]
        ELSE [ok |-> TRUE] @@ Reduced(DigitsValue(digits), Pow(10, fracs))

RECURSIVE BitLen(_)
BitLen(c) == IF c = 0 THEN 0 ELSE 1 + BitLen(c \div 2)

\* int(float(c / 100) * 100) in IEEE 754 double arithmetic, round to nearest even, for
\* an integer c >= 0.  float(c / 100) = m / 2^k with m = round(c * 2^k / 100) of 53
\* bits; r is c * 2^k mod 100 (2^k mod 100 has period 20 from k = 2 on).  The product
\* m * 100 / 2^k is c - r / 2^k when m was rounded down, and rounds back up to c only
\* if r / 2^k is at most half the spacing of the doubles below c, which is r <= t;
\* otherwise it stays below c and int() truncates it to c - 1.
HundredthsTimes100(c) ==
    LET L    == BitLen(c)
        jl   == IF c * 32 >= 25 * Pow(2, L) THEN 7 ELSE 8
        k    == 52 + jl - L
        p    == Pow(2, 2 + ((k - 2) % 20)) % 100
        r    == ((c % 100) * p) % 100
        pow2 == Pow(2, L - 1) = c
        t    == IF pow2 THEN 32 ELSE Pow(2, jl - 2)
    IN  IF c % 25 = 0 THEN c
        ELSE IF r = 0 \/ r > 50 THEN c
        ELSE IF r <= t THEN c
        ELSE c - 1

\* int(float(price) * 100) of the number num / den: when 100 * num / den is no integer
\* the rounding errors (relative 2^-52) cannot reach the next integer
IntOfFloatTimes100(num, den) ==
    IF (100 * num) % den # 0 THEN (100 * num) \div den
    ELSE HundredthsTimes100((100 * num) \div den)

NoPayload == [kind |-> "None"]

NoPrice == [isnone |-> TRUE, chars |-> <<>>]

PriceOf(chars) == [isnone |-> FALSE, chars |-> chars]

PortalsNFT(price) == [kind |-> "PortalsNFT", price |-> price]

TONReward(volume) == [kind |-> "TONReward", volume |-> volume]

\* Gift.update_payload(payload): the gift afterwards and the exception raised
update_payload(g, payload) ==
    IF payload.kind = "PortalsNFT"
    THEN IF payload.price.isnone
         THEN [gift |-> g, exc |-> "TypeError"]
         ELSE LET f == ParseDecimal(payload.price.chars)
              IN  IF ~f.ok THEN [gift |-> g, exc |-> "ValueError"]
                  ELSE [gift |-> [g EXCEPT !.volume = IntOfFloatTimes100(f.num, f.den),
                                           !.payload = payload],
                        exc |-> "none"]
    ELSE IF payload.kind = "TONReward"
    THEN [gift |-> [g EXCEPT !.volume = payload.volume, !.payload = payload],
          exc |-> "none"]
    ELSE [gift |-> g, exc |-> "ValueError"]

PriceChars == {"0", "1", "2", "5", "9", ".", "x"}

Prices == {NoPrice} \cup {PriceOf(s) : s \in SeqsUpTo(PriceChars, MaxPriceLen)}

\* the arguments callers pass: assets, rewards, and values of neither type
Payloads ==
    {PortalsNFT(p) : p \in Prices}
        \cup {TONReward(v) : v \in {0, 500, 1250}}
        \cup {[kind |-> "str"], NoPayload}

\* the gift before the call: as constructed, or holding a reward already
GiftsBefore ==
    {[volume |-> 77, payload |-> NoPayload], [volume |-> 500, payload |-> TONReward(500)]}

InitGift ==
    /\ db = [c \in Collections |-> <<>>]
    /\ nextId = 1
    /\ work = 0
    /\ last = Idle
    /\ cur = CurIdle
    /\ gift \in {[stage |-> "new", before |-> g, gift |-> g, arg |-> a, exc |-> "none"] :
                    g \in GiftsBefore, a \in Payloads}

UpdatePayload ==
    /\ gift.stage = "new"
    /\ gift' = [gift EXCEPT !.stage = "done",
                            !.gift = update_payload(gift.gift, gift.arg).gift,
                            !.exc = update_payload(gift.gift, gift.arg).exc]
    /\ UNCHANGED <<db, nextId, work, last, cur>>

NextGift == UpdatePayload

SpecGift == InitGift /\ [][NextGift]_vars

\* a string of the form digits "." two digits, or digits alone
IsHundredths(s) ==
    /\ s # <<>>
    /\ \A i \in 1..Len(s) : IsDigit(s[i]) \/ (s[i] = "." /\ i = Len(s) - 2 /\ i > 1)

\* C10 (as claimed): given an asset, the payload becomes that asset and the volume the
\* asset's price scaled by 100 as an integer ("12.50" gives 1250); given a reward, the
\* payload becomes that reward and the volume the reward's volume; given a value of
\* neither variant it raises ValueError and leaves volume and payload unchanged.
C10_UpdatePayloadVolume ==
    gift.stage = "done" =>
        /\ (gift.arg.kind = "PortalsNFT" /\ ~gift.arg.price.isnone
              /\ IsHundredths(gift.arg.price.chars)) =>
                 /\ gift.exc = "none"
                 /\ gift.gift.payload = gift.arg
                 /\ gift.gift.volume * ParseDecimal(gift.arg.price.chars).den
                       = 100 * ParseDecimal(gift.arg.price.chars).num
        /\ gift.arg.kind = "TONReward" =>
                 /\ gift.exc = "none"
                 /\ gift.gift.payload = gift.arg
                 /\ gift.gift.volume = gift.arg.volume
        /\ gift.arg.kind \notin {"PortalsNFT", "TONReward"} =>
                 /\ gift.exc = "ValueError"
                 /\ gift.gift = gift.before

\* the examples of the claim, and its reward and neither-variant parts (hold)
UpdatePayloadExamples ==
    gift.stage = "done" =>
        /\ gift.arg = PortalsNFT(PriceOf(<<"1", "2", ".", "5", "0">>)) =>
              gift.exc = "none" /\ gift.gift.volume = 1250 /\ gift.gift.payload = gift.arg
        /\ gift.arg = PortalsNFT(PriceOf(<<"0", ".", "2", "9">>)) =>
              gift.exc = "none" /\ gift.gift.volume = 28
        /\ gift.arg = TONReward(500) =>
              gift.exc = "none" /\ gift.gift.volume = 500 /\ gift.gift.payload = gift.arg
        /\ gift.arg.kind \notin {"PortalsNFT", "TONReward"} =>
              gift.exc = "ValueError" /\ gift.gift = gift.before
        /\ gift.exc # "none" => gift.gift = gift.before
====
